---- MODULE Spec2Model ----
(***************************************************************************)
(* The frequency-domain engine of Backend/utils/signal_processing.py:      *)
(* SignalProcessor.custom_fft, custom_ifft and apply_multi_band_equalizer, *)
(* with the length validation of BaseMode.process_signal.                  *)
(*                                                                         *)
(* Numbers are exact.  A complex number is an element of Z[w], w =         *)
(* exp(-2*pi*i/8), written <<a0, a1, a2, a3>> = a0 + a1*w + a2*w^2 +       *)
(* a3*w^3 with w^4 = -1; every twiddle factor of a transform of length     *)
(* 2, 4 or 8 is a power of w.  A quotient by an integer is a record        *)
(* [num, den]; a real number is (p + q*sqrt(2))/d.  Floating-point         *)
(* rounding is not part of the model.                                      *)
(***************************************************************************)
EXTENDS Integers, Sequences, FiniteSets, TLC

VARIABLES call, arg, ret, prev

vars == <<call, arg, ret, prev>>

----------------------------------------------------------------------------
(* Exact arithmetic *)

AbsInt(n) == IF n < 0 THEN -n ELSE n

RECURSIVE GcdNat(_, _)
GcdNat(a, b) == IF b = 0 THEN a ELSE GcdNat(b, a % b)

Gcd(a, b) == GcdNat(AbsInt(a), AbsInt(b))

\* complex numbers: Z[w], w = exp(-2*pi*i/8)
CZero == <<0, 0, 0, 0>>

CReal(r) == <<r, 0, 0, 0>>

CAdd(u, v) == <<u[1] + v[1], u[2] + v[2], u[3] + v[3], u[4] + v[4]>>

CSub(u, v) == <<u[1] - v[1], u[2] - v[2], u[3] - v[3], u[4] - v[4]>>

CScale(r, u) == <<r * u[1], r * u[2], r * u[3], r * u[4]>>

\* product modulo w^4 = -1
CMul(u, v) ==
    << u[1]*v[1] - u[2]*v[4] - u[3]*v[3] - u[4]*v[2],
       u[1]*v[2] + u[2]*v[1] - u[3]*v[4] - u[4]*v[3],
       u[1]*v[3] + u[2]*v[2] + u[3]*v[1] - u[4]*v[4],
       u[1]*v[4] + u[2]*v[3] + u[3]*v[2] + u[4]*v[1] >>

\* np.conjugate: conj(w) = w^7 = -w^3, conj(w^2) = -w^2, conj(w^3) = -w
CConj(u) == <<u[1], -u[4], -u[3], -u[2]>>

\* w^m
WPow(m) ==
    LET r == m % 8
        e == [j \in 1..4 |-> IF j = (r % 4) + 1 THEN 1 ELSE 0]
    IN  IF r < 4 THEN <<e[1], e[2], e[3], e[4]>>
        ELSE <<-e[1], -e[2], -e[3], -e[4]>>

\* u / n for an integer n > 0, in lowest terms
CQuot(u, n) ==
    LET g == Gcd(Gcd(Gcd(u[1], u[2]), Gcd(u[3], u[4])), n)
    IN  [num |-> <<u[1] \div g, u[2] \div g, u[3] \div g, u[4] \div g>>,
         den |-> n \div g]

\* real numbers (p + q*sqrt(2))/d, d > 0, in lowest terms
RMake(p, q, d) ==
    LET g == Gcd(Gcd(p, q), d)
    IN  [p |-> p \div g, q |-> q \div g, d |-> d \div g]

RInt(r) == [p |-> r, q |-> 0, d |-> 1]

\* sign of p + q*sqrt(2)
RSignPQ(p, q) ==
    IF p >= 0 /\ q >= 0 THEN (IF p = 0 /\ q = 0 THEN 0 ELSE 1)
    ELSE IF p <= 0 /\ q <= 0 THEN -1
    ELSE IF p > 0 THEN (IF p*p > 2*q*q THEN 1 ELSE -1)
    ELSE (IF 2*q*q > p*p THEN 1 ELSE -1)

RSign(a) == RSignPQ(a.p, a.q)

RNeg(a) == [p |-> -a.p, q |-> -a.q, d |-> a.d]

\* np.abs on a real
RAbs(a) == IF RSign(a) < 0 THEN RNeg(a) ELSE a

RLeq(a, b) == RSignPQ(b.p * a.d - a.p * b.d, b.q * a.d - a.q * b.d) >= 0

RTimesInt(k, a) == RMake(k * a.p, k * a.q, a.d)

\* a / b for b # 0: multiply by the conjugate of b's numerator
RDiv(a, b) ==
    LET nrm == b.p * b.p - 2 * b.q * b.q
        p == (a.p * b.p - 2 * a.q * b.q) * b.d
        q == (a.q * b.p - a.p * b.q) * b.d
        d == a.d * nrm
    IN  IF d > 0 THEN RMake(p, q, d) ELSE RMake(-p, -q, -d)

\* np.real of a quotient: Re(w) = sqrt(2)/2, Re(w^2) = 0, Re(w^3) = -sqrt(2)/2
RealPart(z) == RMake(2 * z.num[1], z.num[2] - z.num[4], 2 * z.den)

\* np.max over a non-empty sequence of reals
RECURSIVE RMaxSeq(_)
RMaxSeq(s) ==
    IF Len(s) = 1 THEN s[1]
    ELSE LET m == RMaxSeq(Tail(s))
         IN  IF RLeq(s[1], m) THEN m ELSE s[1]

----------------------------------------------------------------------------
(* Transform engine: signal_processing.py lines 8-33 *)

\* math.ceil(math.log2(n)) for n >= 1
RECURSIVE CeilLog2(_)
CeilLog2(n) == IF n <= 1 THEN 0 ELSE 1 + CeilLog2((n + 1) \div 2)

RECURSIVE Pow2(_)
Pow2(e) == IF e = 0 THEN 1 ELSE 2 * Pow2(e - 1)

\* next_power = 2 ** math.ceil(math.log2(n))
next_power(n) == Pow2(CeilLog2(n))

\* mutant: np.pad(x, (k, 0)), the zeros put in front
PadStart(x, k) == [j \in 1..k |-> CZero] \o x

\* np.pad(x, (0, k)): k zeros appended at the end
PadEnd(x, k) == x \o [j \in 1..k |-> CZero]

\* x[::2], the elements at the even (0-based) indices
EvenPart(x) == [j \in 1..((Len(x) + 1) \div 2) |-> x[2 * j - 1]]

\* x[1::2], the elements at the odd (0-based) indices
OddPart(x) == [j \in 1..(Len(x) \div 2) |-> x[2 * j]]

\* mutant: the sign of the exponent lost, np.exp(2j * np.pi * k / n)
Twiddle_positive_exponent(k, n) == WPow(-((8 * k) \div n))

\* np.exp(-2j * np.pi * k / n), for n dividing 8
Twiddle(k, n) == WPow((8 * k) \div n)

\* a real sequence as a complex one
ToComplexSeq(s) == [j \in 1..Len(s) |-> CReal(s[j])]

RECURSIVE custom_fft(_)
custom_fft(x) ==
    IF Len(x) <= 1 THEN x
    ELSE
        LET n    == next_power(Len(x))
            xp   == IF Len(x) # n THEN PadEnd(x, n - Len(x)) ELSE x
            even == custom_fft(EvenPart(xp))
            odd  == custom_fft(OddPart(xp))
            T    == [k \in 1..(n \div 2) |-> CMul(Twiddle(k - 1, n), odd[k])]
        IN  [k \in 1..(n \div 2) |-> CAdd(even[k], T[k])]
            \o [k \in 1..(n \div 2) |-> CSub(even[k], T[k])]

\* mutant: the division by n left out
ifft_divisor_one(x) == 1

\* the divisor of custom_ifft: n = len(x), taken before the transform pads
ifft_divisor(x) == Len(x)

custom_ifft(x) ==
    LET n         == ifft_divisor(x)
        conj      == [j \in 1..Len(x) |-> CConj(x[j])]
        transform == custom_fft(conj)
    IN  [j \in 1..Len(transform) |-> CQuot(CConj(transform[j]), n)]

----------------------------------------------------------------------------
(* Frequency mask: signal_processing.py lines 46-71 *)

\* np.fft.fftfreq(n, 1/sample_rate): bin k (0-based) holds m(k)*sample_rate/n with
\* m(k) = k for k < (n-1)//2 + 1 and k - n after; a frequency is <<numerator, n>>
fftfreq(n, sample_rate) ==
    [j \in 1..n |->
        << (IF j - 1 < ((n - 1) \div 2) + 1 THEN j - 1 ELSE j - 1 - n) * sample_rate, n >>]

\* freq >= v and freq <= v for a frequency <<num, den>> (den > 0) and an integer v
FreqGeq(f, v) == f[1] >= v * f[2]

FreqLeq(f, v) == f[1] <= v * f[2]

\* np.where((freqs >= low_freq) & (freqs <= high_freq))[0]
indices(freqs, band) ==
    {j \in 1..Len(freqs) : FreqGeq(freqs[j], band[1]) /\ FreqLeq(freqs[j], band[2])}

\* np.where((freqs >= -high_freq) & (freqs <= -low_freq))[0]
neg_indices(freqs, band) ==
    {j \in 1..Len(freqs) : FreqGeq(freqs[j], -band[2]) /\ FreqLeq(freqs[j], -band[1])}

\* frequency_mask[idx] *= gain
TimesGain(mask, idx, gain) ==
    [j \in 1..Len(mask) |-> IF j \in idx THEN mask[j] * gain ELSE mask[j]]

\* mutant: the pass over the negative frequencies (lines 67-69) left out
apply_band_positive_only(mask, freqs, band, gain) ==
    TimesGain(mask, indices(freqs, band), gain)

\* the body of the loop over one slider's bands (lines 59-69)
apply_band(mask, freqs, band, gain) ==
    TimesGain(TimesGain(mask, indices(freqs, band), gain), neg_indices(freqs, band), gain)

\* for band_idx, band in enumerate(frequency_bands)
RECURSIVE apply_bands(_, _, _, _)
apply_bands(mask, freqs, frequency_bands, gain) ==
    IF frequency_bands = <<>> THEN mask
    ELSE apply_bands(apply_band(mask, freqs, Head(frequency_bands), gain),
                     freqs, Tail(frequency_bands), gain)

\* for i, (slider_config, gain) in enumerate(zip(sliders_config, slider_values)):
\* zip stops at the end of the shorter list
RECURSIVE apply_sliders(_, _, _, _)
apply_sliders(mask, freqs, sliders_config, slider_values) ==
    IF sliders_config = <<>> \/ slider_values = <<>> THEN mask
    ELSE apply_sliders(
            apply_bands(mask, freqs, Head(sliders_config).frequency_bands,
                        Head(slider_values)),
            freqs, Tail(sliders_config), Tail(slider_values))

\* lines 46-71 for a transform of n >= 1 bins
frequency_mask(n, sample_rate, sliders_config, slider_values) ==
    apply_sliders([j \in 1..n |-> 1], fftfreq(n, sample_rate),
                  sliders_config, slider_values)

----------------------------------------------------------------------------
(* Equalizer: signal_processing.py lines 36-88 *)

\* mutant: np.max(processed_signal), the np.abs left out
peak_signed(s) == RMaxSeq(s)

\* np.max(np.abs(processed_signal))
peak(s) == RMaxSeq([j \in 1..Len(s) |-> RAbs(s[j])])

\* mutant: the normalization of lines 82-84 left out
normalize_off(s) == s

\* mutant: the guard of line 82 left out; numpy's 0/0 is nan, written 0/0 here
normalize_unguarded(s) ==
    IF RSign(peak(s)) > 0
    THEN [j \in 1..Len(s) |-> RDiv(s[j], peak(s))]
    ELSE [j \in 1..Len(s) |-> [p |-> 0, q |-> 0, d |-> 0]]

\* lines 82-84: divide by the peak when it is > 0
normalize(s) ==
    IF RSign(peak(s)) > 0
    THEN [j \in 1..Len(s) |-> RDiv(s[j], peak(s))]
    ELSE s

\* mutant: the result cut back to the input's length, processed_signal[:len(signal)]
equalizer_truncating(signal, sliders_config, slider_values, sample_rate) ==
    LET fft_result == custom_fft(ToComplexSeq(signal))
        n          == Len(fft_result)
    IN  IF n = 0
        THEN [status |-> "raised", error |-> "ZeroDivisionError"]
        ELSE
            LET mask      == frequency_mask(n, sample_rate, sliders_config, slider_values)
                modified  == [j \in 1..n |-> CScale(mask[j], fft_result[j])]
                inverse   == custom_ifft(modified)
                processed == [j \in 1..Len(signal) |-> RealPart(inverse[j])]
            IN  [status           |-> "returned",
                 fft_result       |-> fft_result,
                 frequency_mask   |-> mask,
                 modified_fft     |-> modified,
                 processed_signal |-> processed,
                 result           |-> normalize(processed)]

apply_multi_band_equalizer(signal, sliders_config, slider_values, sample_rate) ==
    LET fft_result == custom_fft(ToComplexSeq(signal))
        n          == Len(fft_result)
    IN  IF n = 0
        THEN \* fftfreq(0, d) divides 1.0 by n*d = 0
             [status |-> "raised", error |-> "ZeroDivisionError"]
        ELSE
            LET mask      == frequency_mask(n, sample_rate, sliders_config, slider_values)
                modified  == [j \in 1..n |-> CScale(mask[j], fft_result[j])]
                inverse   == custom_ifft(modified)
                processed == [j \in 1..Len(inverse) |-> RealPart(inverse[j])]
            IN  [status           |-> "returned",
                 fft_result       |-> fft_result,
                 frequency_mask   |-> mask,
                 modified_fft     |-> modified,
                 processed_signal |-> processed,
                 result           |-> normalize(processed)]

\* mutant: the comparison of the two counts (lines 125-126) left out
process_signal_uncounted(signal, sample_rate, sliders, slider_values) ==
    IF sliders = <<>>
    THEN [status |-> "raised", error |-> "No slider configuration found"]
    ELSE apply_multi_band_equalizer(signal, sliders, slider_values, sample_rate)

\* BaseMode.process_signal, base_mode.py lines 121-133
process_signal(signal, sample_rate, sliders, slider_values) ==
    IF sliders = <<>>
    THEN [status |-> "raised", error |-> "No slider configuration found"]
    ELSE IF Len(slider_values) # Len(sliders)
    THEN [status |-> "raised", error |-> "Slider values count doesn't match settings count"]
    ELSE apply_multi_band_equalizer(signal, sliders, slider_values, sample_rate)

----------------------------------------------------------------------------
(* Inputs *)

\* longest sequence handed to forward / inverse
MaxLen == 5

\* longest signal handed to the equalizer
MaxSignal == 3

\* most sliders, and most bands over all sliders, of a mask configuration
MaxSliders == 2

MaxBands == 3

\* the same for a configuration handed to the equalizer together with a signal
MaxEqSliders == 1

MaxEqBands == 1

SampleVals == {-1, 0, 1, 2}

EqSampleVals == {-2, 0, 1}

\* spectrum entries handed to inverse: 0, 1, -i = w^2, 1 + w
SpectrumVals == {CZero, CReal(1), <<0, 0, 1, 0>>, <<1, 1, 0, 0>>}

\* Hz; with 8 bins the bins of rate 4 lie half a Hz apart
SampleRates == {4, 8}

Gains == {0, 1, 2}

\* (low_freq, high_freq) pairs: the whole band of sample rate 8, an inner band,
\* one above the Nyquist frequency of both rates, one below zero
BandSet == {<<0, 4>>, <<1, 2>>, <<5, 6>>, <<-2, -1>>}

RECURSIVE SeqsOfLen(_, _)
SeqsOfLen(S, n) ==
    IF n = 0 THEN {<<>>}
    ELSE {Append(s, v) : s \in SeqsOfLen(S, n - 1), v \in S}

SeqsUpTo(S, n) == UNION {SeqsOfLen(S, k) : k \in 0..n}

Signals == SeqsUpTo(SampleVals, MaxLen)

Spectra == SeqsUpTo(SpectrumVals, MaxLen)

EqSignals == SeqsUpTo(EqSampleVals, MaxSignal)

\* slider lists of at most k sliders holding at most t bands in all, each slider
\* with at least one band
RECURSIVE Configs(_, _)
Configs(k, t) ==
    IF k = 0 \/ t = 0 THEN {<<>>}
    ELSE {<<>>} \cup
         UNION {{<<[frequency_bands |-> bs]>> \o rest :
                    bs \in SeqsOfLen(BandSet, j), rest \in Configs(k - 1, t - j)} :
                j \in 1..t}

\* the lengths a transform can have: 1 and the powers of two up to next_power(MaxLen)
TransformLengths == {n \in 1..next_power(MaxLen) : n = next_power(n)}

----------------------------------------------------------------------------
(* Operations.  call names the operation invoked, arg holds its arguments and  *)
(* ret what it returned together with the locals the properties speak about;   *)
(* prev is the call made before it when its result was passed on.              *)

NoCall == [call |-> "none"]

Init ==
    /\ call = "none"
    /\ arg = NoCall
    /\ ret = NoCall
    /\ prev = NoCall

\* forward(samples)
Forward ==
    /\ call = "none"
    /\ \E s \in Signals :
        /\ call' = "forward"
        /\ arg' = [x |-> ToComplexSeq(s), samples |-> s]
        /\ ret' = [y |-> custom_fft(ToComplexSeq(s))]
        /\ prev' = prev

\* inverse(spectrum) on a spectrum of any length
Inverse ==
    /\ call = "none"
    /\ \E X \in Spectra :
        /\ call' = "inverse"
        /\ arg' = [x |-> X]
        /\ ret' = [y |-> custom_ifft(X)]
        /\ prev' = prev

\* inverse(forward(samples)): the spectrum forward returned is handed to inverse
InverseOfForward ==
    /\ call = "forward"
    /\ call' = "inverse"
    /\ arg' = [x |-> ret.y]
    /\ ret' = [y |-> custom_ifft(ret.y)]
    /\ prev' = [call |-> call, arg |-> arg, ret |-> ret]

\* the mask of lines 46-71 for a transform length, a sample rate and a configuration
BuildMask ==
    /\ call = "none"
    /\ \E n \in TransformLengths, sample_rate \in SampleRates,
          sliders_config \in Configs(MaxSliders, MaxBands),
          slider_values \in SeqsUpTo(Gains, MaxSliders) :
        /\ call' = "mask"
        /\ arg' = [n |-> n, sample_rate |-> sample_rate,
                   sliders_config |-> sliders_config, slider_values |-> slider_values]
        /\ ret' = [frequency_mask |->
                      frequency_mask(n, sample_rate, sliders_config, slider_values)]
        /\ prev' = prev

\* SignalProcessor.apply_multi_band_equalizer called directly
Equalize ==
    /\ call = "none"
    /\ \E signal \in EqSignals, sample_rate \in SampleRates,
          sliders_config \in Configs(MaxEqSliders, MaxEqBands),
          slider_values \in SeqsUpTo(Gains, MaxEqSliders) :
        /\ call' = "equalizer"
        /\ arg' = [signal |-> signal, sample_rate |-> sample_rate,
                   sliders_config |-> sliders_config, slider_values |-> slider_values]
        /\ ret' = apply_multi_band_equalizer(signal, sliders_config, slider_values,
                                             sample_rate)
        /\ prev' = prev

\* BaseMode.process_signal: the equalizer behind the handler's validation
ProcessSignal ==
    /\ call = "none"
    /\ \E signal \in EqSignals, sample_rate \in SampleRates,
          sliders \in Configs(MaxEqSliders, MaxEqBands),
          slider_values \in SeqsUpTo(Gains, MaxEqSliders) :
        /\ call' = "process_signal"
        /\ arg' = [signal |-> signal, sample_rate |-> sample_rate,
                   sliders_config |-> sliders, slider_values |-> slider_values]
        /\ ret' = process_signal(signal, sample_rate, sliders, slider_values)
        /\ prev' = prev

(***************************************************************************)
(* The spectrogram and the spectrum handlers.  The Hann window and the     *)
(* magnitudes are irrational, so an array is held by its length: what is   *)
(* modelled is how many frames are cut, how long each transform is, how    *)
(* many bins of it are kept, and which frequency each kept bin is given.   *)
(* A time or a frequency is a quotient <<numerator, denominator>>.         *)
(***************************************************************************)

\* len(custom_fft(x)) for len(x) = n: x itself for n <= 1, else the padded length,
\* which the halving and the combine step keep
fft_length(n) == IF n <= 1 THEN n ELSE next_power(n)

\* lines 96-97: a signal shorter than the window is zero-padded up to it
padded_signal_length(signal_len, window_size) ==
    IF signal_len < window_size
    THEN signal_len + (window_size - signal_len)
    ELSE signal_len

\* mutant: the quotient rounded up, a last frame that runs past the signal
num_frames_rounded_up(signal_len, window_size, hop_size) ==
    (signal_len - window_size + hop_size - 1) \div hop_size + 1

\* line 99
num_frames(signal_len, window_size, hop_size) ==
    (signal_len - window_size) \div hop_size + 1

\* mutant: frame starts in samples, not divided by the sample rate
time_axis_in_samples(frames, hop_size, sample_rate) ==
    [i \in 1..frames |-> << (i - 1) * hop_size, 1 >>]

\* line 103: np.arange(num_frames) * hop_size / sample_rate
time_axis(frames, hop_size, sample_rate) ==
    [i \in 1..frames |-> << (i - 1) * hop_size, sample_rate >>]

\* a[:k] of a sequence
Head_k(a, k) == SubSeq(a, 1, IF k < Len(a) THEN k ELSE Len(a))

\* line 106: np.fft.fftfreq(window_size, 1/sample_rate)[:window_size // 2]
freq_axis(window_size, sample_rate) ==
    Head_k(fftfreq(window_size, sample_rate), window_size \div 2)

\* mutant: frames laid end to end, start = i * window_size
spectrogram_frame_end_to_end(i, signal_len, window_size, hop_size) ==
    LET start      == i * window_size
        end        == start + window_size
        window_len == (IF end < signal_len THEN end ELSE signal_len) - start
        fft_frame  == fft_length(window_len)
    IN  [start      |-> start,
         end        |-> end,
         window_len |-> window_len,
         fft_frame  |-> fft_frame,
         magnitude  |-> IF window_size \div 2 < fft_frame
                        THEN window_size \div 2 ELSE fft_frame]

\* lines 111-115: one frame, by its slice, the length of its transform and the
\* number of bins kept
spectrogram_frame(i, signal_len, window_size, hop_size) ==
    LET start      == i * hop_size
        end        == start + window_size
        window_len == (IF end < signal_len THEN end ELSE signal_len) - start
        fft_frame  == fft_length(window_len)
    IN  [start      |-> start,
         end        |-> end,
         window_len |-> window_len,
         fft_frame  |-> fft_frame,
         magnitude  |-> IF window_size \div 2 < fft_frame
                        THEN window_size \div 2 ELSE fft_frame]

\* SignalProcessor.compute_spectrogram, lines 91-120
compute_spectrogram(signal_len, window_size, hop_size, sample_rate) ==
    LET len    == padded_signal_length(signal_len, window_size)
        frames == num_frames(len, window_size, hop_size)
        spectrogram == [i \in 1..frames |->
                           spectrogram_frame(i - 1, len, window_size, hop_size)]
    IN  [spectrogram |-> spectrogram,
         \* np.array(spectrogram).T : (bins kept, frames)
         shape       |-> << spectrogram[1].magnitude, Len(spectrogram) >>,
         time_axis   |-> time_axis(frames, hop_size, sample_rate),
         freq_axis   |-> freq_axis(window_size, sample_rate)]

\* generic_mode.compute_spectrum, lines 377-401: np.max of an empty array raises
\* (line 378); else the transform of the windowed samples and the labels of
\* its first n // 2 bins
compute_spectrum(n, sample_rate) ==
    IF n = 0
    THEN [status |-> "raised", error |-> "ValueError"]
    ELSE [status      |-> "returned",
          fft_data    |-> fft_length(n),
          frequencies |-> Head_k(fftfreq(n, sample_rate), n \div 2),
          magnitude   |-> IF n \div 2 < fft_length(n) THEN n \div 2 ELSE fft_length(n)]

\* generic_mode.analyze_audio, lines 539-563: the same labelling
analyze_audio(n, sample_rate) ==
    IF n = 0
    THEN [status |-> "raised", error |-> "ValueError"]
    ELSE [status      |-> "returned",
          fft_data    |-> fft_length(n),
          frequencies |-> Head_k(fftfreq(n, sample_rate), n \div 2),
          magnitude   |-> IF n \div 2 < fft_length(n) THEN n \div 2 ELSE fft_length(n)]

\* signal lengths 0..MaxFrameSignal, windows 1..MaxWindow, hops 1..MaxHop
MaxFrameSignal == 9
MaxWindow == 6
MaxHop == 3

\* the worked example: 2048 samples, window 512, hop 256
ScenarioInputs == {<<2048, 512, 256>>}

SpectrogramInputs ==
    ((0..MaxFrameSignal) \X (1..MaxWindow) \X (1..MaxHop)) \cup ScenarioInputs

ComputeSpectrogram ==
    /\ call = "none"
    /\ \E in \in SpectrogramInputs, sample_rate \in SampleRates :
        /\ call' = "spectrogram"
        /\ arg' = [signal_len |-> in[1], window_size |-> in[2], hop_size |-> in[3],
                   sample_rate |-> sample_rate]
        /\ ret' = compute_spectrogram(in[1], in[2], in[3], sample_rate)
        /\ prev' = prev

ComputeSpectrum ==
    /\ call = "none"
    /\ \E n \in 0..MaxFrameSignal, sample_rate \in SampleRates :
        /\ call' = "compute_spectrum"
        /\ arg' = [n |-> n, sample_rate |-> sample_rate]
        /\ ret' = compute_spectrum(n, sample_rate)
        /\ prev' = prev

AnalyzeAudio ==
    /\ call = "none"
    /\ \E n \in 0..MaxFrameSignal, sample_rate \in SampleRates :
        /\ call' = "analyze_audio"
        /\ arg' = [n |-> n, sample_rate |-> sample_rate]
        /\ ret' = analyze_audio(n, sample_rate)
        /\ prev' = prev

(***************************************************************************)
(* custom_fft run call by call.  ret.stack is the interpreter's call stack *)
(* of custom_fft frames, the innermost last.  A frame is at "enter" (about *)
(* to test its length), at "even" or "odd" (waiting for that recursive     *)
(* call), or "done" (holding its return value).                            *)
(***************************************************************************)

\* mutant: only the empty input is a base case
is_base_case_empty_only(x) == Len(x) = 0

\* mutant: no base case at all
is_base_case_never(x) == FALSE

\* line 11: if n <= 1
is_base_case(x) == Len(x) <= 1

\* mutant: padded to the next even length only
pad_to_even(x) == IF Len(x) % 2 = 1 THEN PadEnd(x, 1) ELSE x

\* lines 15-18: pad with zeros to the next power of two
pad_to_power(x) ==
    LET n == next_power(Len(x))
    IN  IF Len(x) # n THEN PadEnd(x, n - Len(x)) ELSE x

\* lines 24-25: T = twiddle * odd, then even + T followed by even - T
butterfly(even, odd) ==
    LET half == Len(even)
        T    == [k \in 1..half |-> CMul(Twiddle(k - 1, 2 * half), odd[k])]
    IN  [k \in 1..half |-> CAdd(even[k], T[k])]
        \o [k \in 1..half |-> CSub(even[k], T[k])]

\* the frame of a call that has just been made
NewFrame(x) == [pc |-> "enter", x |-> x, even |-> <<>>, value |-> <<>>]

\* the stack with its innermost frame replaced
WithTop(stack, frame) == [stack EXCEPT ![Len(stack)] = frame]

\* the deepest stack the interpreter allows before it raises RecursionError
MaxDepth == 6

\* samples of the runs
RunVals == {0, 1}

RunSignals == SeqsUpTo(RunVals, MaxLen)

\* custom_fft(x) is called
CallForward ==
    /\ call = "none"
    /\ \E s \in RunSignals :
        /\ call' = "running"
        /\ arg' = [x |-> ToComplexSeq(s), samples |-> s]
        /\ ret' = [stack |-> <<NewFrame(ToComplexSeq(s))>>]
        /\ prev' = prev

\* lines 10-21: the innermost call tests its length; it returns x, or pads and
\* calls itself on the even half
Enter ==
    /\ call = "running"
    /\ LET stack == ret.stack
           top   == stack[Len(stack)]
       IN  /\ top.pc = "enter"
           /\ IF is_base_case(top.x)
              THEN /\ call' = call
                   /\ ret' = [stack |-> WithTop(stack, [top EXCEPT !.pc = "done",
                                                                   !.value = top.x])]
              ELSE IF Len(stack) >= MaxDepth
              THEN /\ call' = "raised"
                   /\ ret' = [error |-> "RecursionError"]
              ELSE LET xp == pad_to_power(top.x)
                   IN  /\ call' = call
                       /\ ret' = [stack |->
                                    Append(WithTop(stack, [top EXCEPT !.pc = "even",
                                                                      !.x = xp]),
                                           NewFrame(EvenPart(xp)))]
    /\ UNCHANGED <<arg, prev>>

\* a call returns: to the caller of custom_fft, or to the frame waiting for its
\* even half (line 21, which then calls itself on the odd half, line 22), or to the
\* frame waiting for its odd half (which then combines, lines 24-25)
Return ==
    /\ call = "running"
    /\ LET stack == ret.stack
           top   == stack[Len(stack)]
       IN  /\ top.pc = "done"
           /\ IF Len(stack) = 1
              THEN /\ call' = "returned"
                   /\ ret' = [y |-> top.value]
              ELSE LET parent == stack[Len(stack) - 1]
                       below  == SubSeq(stack, 1, Len(stack) - 2)
                   IN  /\ call' = call
                       /\ IF parent.pc = "even"
                          THEN ret' = [stack |->
                                  below \o <<[parent EXCEPT !.pc = "odd",
                                                            !.even = top.value],
                                             NewFrame(OddPart(parent.x))>>]
                          ELSE ret' = [stack |->
                                  below \o <<[parent EXCEPT
                                                !.pc = "done",
                                                !.value = butterfly(parent.even,
                                                                    top.value)]>>]
    /\ UNCHANGED <<arg, prev>>

(***************************************************************************)
(* The four operations run statement by statement on a heap of arrays, so  *)
(* that which array each statement reads and which it writes is part of    *)
(* the state.  An object id is <<0, name>> for an array of the caller and  *)
(* <<t, name>> for a local of invocation t.  ret.heap maps the ids of the  *)
(* live arrays to their contents, prev.heap is the heap when the calls     *)
(* were made, ret.threads holds one record per invocation.                 *)
(***************************************************************************)

\* mutant: np.conjugate(x, out=x), the conjugate written into the argument
conj_out_in_place(x, fresh) == x

\* line 31: np.conjugate(x) returns a new array
conj_out(x, fresh) == fresh

\* mutant: one mask kept on the class and shared by every invocation
mask_object_shared(t) == <<0, "frequency_mask">>

\* line 50: np.ones(...) is a new array, local to the invocation
mask_object(t) == <<t, "frequency_mask">>

\* heap with object id holding v (allocated, or overwritten in place)
Store(heap, id, v) == (id :> v) @@ heap

\* the locals of invocation t are dropped at its return, except what it returns
Release(heap, t, kept) ==
    [id \in {i \in DOMAIN heap : i[1] # t \/ i = kept} |-> heap[id]]

\* lines 110-115 for every frame: the slice signal[start:end] under the Hann window
\* and the bins kept of its transform's magnitude, as unevaluated terms
spectrogram_frames(signal, window_size, hop_size) ==
    [i \in 1..num_frames(Len(signal), window_size, hop_size) |->
        LET frame == spectrogram_frame(i - 1, Len(signal), window_size, hop_size)
        IN  [abs_fft_of |-> [hanning |-> window_size,
                             samples |-> SubSeq(signal, frame.start + 1, frame.end)],
             bins       |-> frame.magnitude]]

\* a complex sequence with zero imaginary parts as the real sequence it is
RealSamples(x) == [j \in 1..Len(x) |-> x[j][1]]

\* one statement of custom_fft, lines 9-25
forward_step(t, th, heap) ==
    IF th.pc = "start"
    THEN IF Len(heap[th.x]) <= 1
         THEN [heap |-> Release(heap, t, th.x),
               th   |-> [th EXCEPT !.pc = "done", !.status = "returned",
                                   !.result = th.x]]
         ELSE IF Len(heap[th.x]) # next_power(Len(heap[th.x]))
         THEN [heap |-> Store(heap, <<t, "x">>, pad_to_power(heap[th.x])),
               th   |-> [th EXCEPT !.pc = "recurse", !.x = <<t, "x">>]]
         ELSE [heap |-> heap, th |-> [th EXCEPT !.pc = "recurse"]]
    ELSE [heap |-> Release(Store(heap, <<t, "result">>, custom_fft(heap[th.x])),
                           t, <<t, "result">>),
          th   |-> [th EXCEPT !.pc = "done", !.status = "returned",
                              !.result = <<t, "result">>]]

\* one statement of custom_ifft, lines 30-33
inverse_step(t, th, heap) ==
    IF th.pc = "start"
    THEN LET out == conj_out(th.x, <<t, "conj">>)
         IN  [heap |-> Store(heap, out, [j \in 1..Len(heap[th.x]) |->
                                            CConj(heap[th.x][j])]),
              th   |-> [th EXCEPT !.pc = "transform", !.n = Len(heap[th.x]),
                                  !.x = out]]
    ELSE IF th.pc = "transform"
    THEN IF Len(heap[th.x]) <= 1
         THEN [heap |-> heap, th |-> [th EXCEPT !.pc = "divide"]]
         ELSE [heap |-> Store(heap, <<t, "transform">>, custom_fft(heap[th.x])),
               th   |-> [th EXCEPT !.pc = "divide", !.x = <<t, "transform">>]]
    ELSE [heap |-> Release(Store(heap, <<t, "result">>,
                                 [j \in 1..Len(heap[th.x]) |->
                                     CQuot(CConj(heap[th.x][j]), th.n)]),
                           t, <<t, "result">>),
          th   |-> [th EXCEPT !.pc = "done", !.status = "returned",
                              !.result = <<t, "result">>]]

\* numpy multiplies two arrays of equal length, or stretches one of length 1
Broadcastable(m, n) == m = n \/ m = 1 \/ n = 1

\* line 75: fft_result * frequency_mask, elementwise
TimesMask(fft_result, mask) ==
    [j \in 1..(IF Len(fft_result) >= Len(mask) THEN Len(fft_result) ELSE Len(mask)) |->
        CScale(mask[IF Len(mask) = 1 THEN 1 ELSE j],
               fft_result[IF Len(fft_result) = 1 THEN 1 ELSE j])]

\* one statement of apply_multi_band_equalizer, lines 45-88
equalizer_step(t, th, heap, sample_rate) ==
    IF th.pc = "start"
    THEN IF Len(heap[th.x]) = 0
         THEN [heap |-> Release(heap, t, <<t, "none">>),
               th   |-> [th EXCEPT !.pc = "done", !.status = "raised"]]
         ELSE [heap |-> Store(heap, <<t, "fft_result">>, custom_fft(heap[th.x])),
               th   |-> [th EXCEPT !.pc = "ones", !.x = <<t, "fft_result">>]]
    ELSE IF th.pc = "ones"
    THEN [heap |-> Store(heap, mask_object(t), [j \in 1..Len(heap[th.x]) |-> 1]),
          th   |-> [th EXCEPT !.pc = "bands"]]
    ELSE IF th.pc = "bands"
    THEN [heap |-> Store(heap, mask_object(t),
                         apply_sliders(heap[mask_object(t)],
                                       fftfreq(Len(heap[th.x]), sample_rate),
                                       heap[<<0, "sliders_config">>],
                                       heap[<<0, "slider_values">>])),
          th   |-> [th EXCEPT !.pc = "multiply"]]
    ELSE IF th.pc = "multiply"
    THEN LET fft_result == heap[th.x]
             mask       == heap[mask_object(t)]
         IN  IF Broadcastable(Len(fft_result), Len(mask))
             THEN [heap |-> Store(heap, <<t, "modified_fft">>,
                                  TimesMask(fft_result, mask)),
                   th   |-> [th EXCEPT !.pc = "inverse", !.x = <<t, "modified_fft">>]]
             ELSE [heap |-> Release(heap, t, <<t, "none">>),
                   th   |-> [th EXCEPT !.pc = "done", !.status = "raised"]]
    ELSE IF th.pc = "inverse"
    THEN [heap |-> Store(heap, <<t, "processed_signal">>,
                         LET inverse == custom_ifft(heap[th.x])
                         IN  [j \in 1..Len(inverse) |-> RealPart(inverse[j])]),
          th   |-> [th EXCEPT !.pc = "normalize", !.x = <<t, "processed_signal">>]]
    ELSE [heap |-> Release(Store(heap, <<t, "result">>, normalize(heap[th.x])),
                           t, <<t, "result">>),
          th   |-> [th EXCEPT !.pc = "done", !.status = "returned",
                              !.result = <<t, "result">>]]

\* one statement of compute_spectrogram, lines 96-120
spectrogram_step(t, th, heap, window_size, hop_size) ==
    IF th.pc = "start"
    THEN IF Len(heap[th.x]) < window_size
         THEN [heap |-> Store(heap, <<t, "signal">>,
                              PadEnd(heap[th.x], window_size - Len(heap[th.x]))),
               th   |-> [th EXCEPT !.pc = "frames", !.x = <<t, "signal">>]]
         ELSE [heap |-> heap, th |-> [th EXCEPT !.pc = "frames"]]
    ELSE [heap |-> Release(Store(heap, <<t, "result">>,
                                 spectrogram_frames(heap[th.x], window_size, hop_size)),
                           t, <<t, "result">>),
          th   |-> [th EXCEPT !.pc = "done", !.status = "returned",
                              !.result = <<t, "result">>]]

\* arrays of the callers hold at most MaxHeapLen samples
MaxHeapLen == 2

HeapSignals == {ToComplexSeq(s) : s \in SeqsUpTo(RunVals, MaxHeapLen)}

\* the array b may also be a spectrum with imaginary parts
HeapSpectra == SeqsUpTo({CZero, CReal(1), <<0, 0, 1, 0>>}, MaxHeapLen)

IsRealSeq(x) == \A j \in 1..Len(x) : x[j] = CReal(x[j][1])

Operations == {"forward", "inverse", "equalizer", "spectrogram"}

\* an invocation: the operation and the caller's array it is given
Invocations == Operations \X {<<0, "a">>, <<0, "b">>}

\* one invocation, or two that run concurrently
InvocationLists ==
    {<<c>> : c \in Invocations}
        \cup {<<c, d>> : c \in {e \in Invocations : e[2] = <<0, "a">>}, d \in Invocations}

\* the equalizer's other arguments in these runs: one slider on 1..2 Hz, gain 2,
\* at 4 Hz; and the spectrogram's: window 2, hop 1
CallSliders == << [frequency_bands |-> << <<1, 2>> >>] >>

CallGains == <<2>>

CallRate == 4

CallWindow == 2

CallHop == 1

NewThread(c) ==
    [fn |-> c[1], arg |-> c[2], x |-> c[2], pc |-> "start", n |-> 0,
     status |-> "running", result |-> <<0, "none">>]

\* the invocations are made; none has executed a statement yet
MakeCalls ==
    /\ call = "none"
    /\ \E a \in HeapSignals, b \in HeapSpectra, calls \in InvocationLists :
        LET heap == (<<0, "a">> :> a) @@ (<<0, "b">> :> b)
                    @@ (<<0, "sliders_config">> :> CallSliders)
                    @@ (<<0, "slider_values">> :> CallGains)
        IN  \* the equalizer is given real samples
            /\ \A t \in 1..Len(calls) :
                  calls[t][1] = "equalizer" => IsRealSeq(heap[calls[t][2]])
            /\ call' = "calls"
            /\ arg' = [calls |-> calls, sample_rate |-> CallRate,
                       window_size |-> CallWindow, hop_size |-> CallHop]
            /\ prev' = [heap |-> heap]
            /\ ret' = [heap |-> heap,
                       threads |-> [t \in 1..Len(calls) |-> NewThread(calls[t])]]

\* invocation t, running operation fn, executes its next statement
Runs(t, fn) ==
    /\ call = "calls"
    /\ t \in 1..Len(ret.threads)
    /\ ret.threads[t].fn = fn
    /\ ret.threads[t].status = "running"

Took(t, step) ==
    /\ ret' = [heap |-> step.heap, threads |-> [ret.threads EXCEPT ![t] = step.th]]
    /\ UNCHANGED <<call, arg, prev>>

StepForward ==
    \E t \in 1..2 :
        /\ Runs(t, "forward")
        /\ Took(t, forward_step(t, ret.threads[t], ret.heap))

StepInverse ==
    \E t \in 1..2 :
        /\ Runs(t, "inverse")
        /\ Took(t, inverse_step(t, ret.threads[t], ret.heap))

StepEqualizer ==
    \E t \in 1..2 :
        /\ Runs(t, "equalizer")
        /\ Took(t, equalizer_step(t, ret.threads[t], ret.heap, arg.sample_rate))

StepSpectrogram ==
    \E t \in 1..2 :
        /\ Runs(t, "spectrogram")
        /\ Took(t, spectrogram_step(t, ret.threads[t], ret.heap,
                                    arg.window_size, arg.hop_size))

(***************************************************************************)
(* custom_fft on floating-point samples, for transforms longer than 8      *)
(* bins.  A float is an integer count of thousandths and a complex number  *)
(* a pair <<re, im>> of them; a product is rounded down to a thousandth.   *)
(* Angles are counted in sixteenths of a turn, so sample rates of 8 and 16 *)
(* Hz with whole tone frequencies and transforms of up to 16 bins fit.     *)
(***************************************************************************)

\* 1000 * cos(m * pi / 8) for m = 0..4
CosTable == <<1000, 924, 707, 383, 0>>

\* one, in thousandths
Unit == CosTable[1]

\* 1000 * cos(2 * pi * m / 16)
Cos16(m) ==
    LET r == m % 16
    IN  IF r <= 4 THEN CosTable[r + 1]
        ELSE IF r <= 8 THEN -CosTable[8 - r + 1]
        ELSE IF r <= 12 THEN -CosTable[r - 8 + 1]
        ELSE CosTable[16 - r + 1]

\* 1000 * sin(2 * pi * m / 16)
Sin16(m) == Cos16(m - 4)

FAdd(u, v) == <<u[1] + v[1], u[2] + v[2]>>

FSub(u, v) == <<u[1] - v[1], u[2] - v[2]>>

FMul(u, v) ==
    << (u[1] * v[1] - u[2] * v[2]) \div Unit, (u[1] * v[2] + u[2] * v[1]) \div Unit >>

\* np.exp(-2j * np.pi * k / n) for n dividing 16
TwiddleFloat(k, n) == << Cos16((16 * k) \div n), -Sin16((16 * k) \div n) >>

\* custom_fft, lines 9-25, on floats
RECURSIVE custom_fft_float(_)
custom_fft_float(x) ==
    IF Len(x) <= 1 THEN x
    ELSE
        LET n    == next_power(Len(x))
            xp   == IF Len(x) # n THEN x \o [j \in 1..(n - Len(x)) |-> <<0, 0>>] ELSE x
            even == custom_fft_float(EvenPart(xp))
            odd  == custom_fft_float(OddPart(xp))
            T    == [k \in 1..(n \div 2) |-> FMul(TwiddleFloat(k - 1, n), odd[k])]
        IN  [k \in 1..(n \div 2) |-> FAdd(even[k], T[k])]
            \o [k \in 1..(n \div 2) |-> FSub(even[k], T[k])]

\* amplitude * sin(2 * pi * f0 * t / sample_rate) for t = 0..N-1
Sine(f0, sample_rate, N, amplitude) ==
    [j \in 1..N |-> << amplitude * Sin16((16 * f0 * (j - 1)) \div sample_rate), 0 >>]

\* the square of np.abs
AbsSquared(u) == u[1] * u[1] + u[2] * u[2]

\* np.argmax of the magnitudes: the first index (from 0) of a largest one
ArgMax(mags) ==
    (CHOOSE k \in 1..Len(mags) :
        /\ \A j \in 1..Len(mags) : mags[j] <= mags[k]
        /\ \A j \in 1..(k - 1) : mags[j] < mags[k]) - 1

\* tones of up to MaxToneLen samples
MaxToneLen == 12

ToneRates == {8, 16}

ToneAmplitudes == {1, 2}

\* forward on a pure sine, and the largest of the first N // 2 magnitudes
Tone ==
    /\ call = "none"
    /\ \E sample_rate \in ToneRates, amplitude \in ToneAmplitudes, N \in 2..MaxToneLen :
       \E f0 \in 1..(sample_rate \div 2) :
        /\ N >= 2 * f0
        /\ LET samples  == Sine(f0, sample_rate, N, amplitude)
               spectrum == custom_fft_float(samples)
               mags     == [k \in 1..(N \div 2) |-> AbsSquared(spectrum[k])]
           IN  /\ call' = "tone"
               /\ arg' = [f0 |-> f0, sample_rate |-> sample_rate, N |-> N,
                          samples |-> samples]
               /\ ret' = [y |-> spectrum, magnitudes |-> mags, peak |-> ArgMax(mags)]
               /\ prev' = prev

(***************************************************************************)
(* The /process handler of a mode, base_mode.py lines 39-67, with          *)
(* parse_processing_request, load_settings and process_signal behind it.   *)
(* The response is its status code and body; stages lists, in order, the   *)
(* stages the request went through.                                        *)
(***************************************************************************)

\* the values of the form field 'sliders' a request may carry; "absent" is a form
\* without the field
FormTexts == {"absent", "[]", "[2]", "[1, 0]", "[1", "5", "\"a\""}

\* json.loads on those texts: a list of numbers, a number, a string, or JSONDecodeError
json_loads(text) ==
    IF text = "[]" THEN [ok |-> TRUE, kind |-> "list", items |-> <<>>, len |-> 0]
    ELSE IF text = "[2]" THEN [ok |-> TRUE, kind |-> "list", items |-> <<2>>, len |-> 1]
    ELSE IF text = "[1, 0]"
    THEN [ok |-> TRUE, kind |-> "list", items |-> <<1, 0>>, len |-> 2]
    ELSE IF text = "5" THEN [ok |-> TRUE, kind |-> "number", items |-> <<>>, len |-> 0]
    ELSE IF text = "\"a\"" THEN [ok |-> TRUE, kind |-> "string", items |-> <<>>, len |-> 1]
    ELSE [ok |-> FALSE, kind |-> "none", items |-> <<>>, len |-> 0]

Failed(code, error, stages) ==
    [code |-> code, body |-> [success |-> FALSE, error |-> error], stages |-> stages]

\* process_audio: request is the multipart request, settings_file what
\* load_mode_settings finds, audio what wavfile.read makes of the upload, and
\* later_failure whether a step after the equalizer (spectrograms, plots, the
\* WAV buffer) raises
process_audio(request, settings_file, audio, later_failure) ==
    IF ~request.has_file
    THEN Failed(400, "No file uploaded", <<>>)
    ELSE IF request.filename = ""
    THEN Failed(400, "No file selected", <<>>)
    ELSE
      LET parsed == json_loads(IF request.sliders = "absent" THEN "[]"
                               ELSE request.sliders)
      IN
      IF ~parsed.ok
      THEN Failed(500, "Invalid slider values format", <<"json_loads">>)
      ELSE IF settings_file.status = "unreadable"
      THEN Failed(500, "settings", <<"json_loads", "load_settings">>)
      ELSE IF settings_file.sliders = <<>>
      THEN Failed(500, "No sliders found in settings", <<"json_loads", "load_settings">>)
      ELSE IF audio.status = "unreadable"
      THEN Failed(500, "audio", <<"json_loads", "load_settings", "load_audio_file">>)
      ELSE IF parsed.kind = "number"
      THEN Failed(500, "TypeError",
                  <<"json_loads", "load_settings", "load_audio_file", "process_signal">>)
      ELSE IF parsed.kind = "string"
      THEN IF parsed.len # Len(settings_file.sliders)
           THEN Failed(500, "Slider values count doesn't match settings count",
                       <<"json_loads", "load_settings", "load_audio_file",
                         "process_signal">>)
           ELSE Failed(500, "TypeError",
                       <<"json_loads", "load_settings", "load_audio_file",
                         "process_signal", "equalizer">>)
      ELSE
        LET r == process_signal(audio.signal, audio.sample_rate,
                                settings_file.sliders, parsed.items)
        IN  IF r.status = "raised"
            THEN Failed(500, r.error,
                        IF r.error = "ZeroDivisionError"
                        THEN <<"json_loads", "load_settings", "load_audio_file",
                               "process_signal", "equalizer">>
                        ELSE <<"json_loads", "load_settings", "load_audio_file",
                               "process_signal">>)
            ELSE IF later_failure
            THEN Failed(500, "later",
                        <<"json_loads", "load_settings", "load_audio_file",
                          "process_signal", "equalizer", "spectrograms">>)
            ELSE [code   |-> 200,
                  body   |-> [success |-> TRUE, output_signal |-> r.result,
                              sample_rate |-> audio.sample_rate],
                  stages |-> <<"json_loads", "load_settings", "load_audio_file",
                               "process_signal", "equalizer", "spectrograms">>]

\* the requests: without a file part, or with one under some filename
Requests ==
    {[has_file |-> FALSE, filename |-> "", sliders |-> t] : t \in FormTexts}
        \cup {[has_file |-> TRUE, filename |-> f, sliders |-> t] :
                 f \in {"", "song.wav"}, t \in FormTexts}

\* the settings of the mode: a file that does not parse, or a list of sliders
SettingsFiles ==
    {[status |-> "unreadable", sliders |-> <<>>]}
        \cup {[status |-> "loaded", sliders |-> c] :
                 c \in Configs(MaxEqSliders, MaxEqBands)}

\* the upload as load_audio_file returns it (peak 1): not a WAV file, or samples
Uploads ==
    {[status |-> "unreadable", signal |-> <<>>, sample_rate |-> 8]}
        \cup {[status |-> "loaded", signal |-> sig, sample_rate |-> 8] :
                 sig \in {<<1>>, <<1, 0>>, <<0, -1, 1>>}}

ProcessAudio ==
    /\ call = "none"
    /\ \E request \in Requests, settings_file \in SettingsFiles, audio \in Uploads,
          later_failure \in BOOLEAN :
        /\ call' = "process_audio"
        /\ arg' = [request |-> request, settings |-> settings_file, audio |-> audio,
                   later_failure |-> later_failure]
        /\ ret' = process_audio(request, settings_file, audio, later_failure)
        /\ prev' = prev

(***************************************************************************)
(* The generic endpoint's equalizer, generic_mode.py lines 744-789: its    *)
(* gain profile, built next to the core equalizer's mask for the same      *)
(* bands.  A band is [startFreq, endFreq, gain].                           *)
(***************************************************************************)

\* lines 763-774: one band of the loop; a gain within 0.001 of 1 is skipped
apply_generic_band(gain_profile, frequencies, band) ==
    IF band.gain = 1 THEN gain_profile
    ELSE [j \in 1..Len(gain_profile) |->
            IF /\ AbsInt(frequencies[j][1]) >= band.startFreq * frequencies[j][2]
               /\ AbsInt(frequencies[j][1]) <= band.endFreq * frequencies[j][2]
            THEN gain_profile[j] * band.gain
            ELSE gain_profile[j]]

\* for band in bands
RECURSIVE apply_generic_bands(_, _, _)
apply_generic_bands(gain_profile, frequencies, bands) ==
    IF bands = <<>> THEN gain_profile
    ELSE apply_generic_bands(apply_generic_band(gain_profile, frequencies, Head(bands)),
                             frequencies, Tail(bands))

\* lines 748-774 for a signal of n >= 1 samples
gain_profile(n, sample_rate, bands) ==
    apply_generic_bands([j \in 1..n |-> 1], fftfreq(n, sample_rate), bands)

\* at most MaxProfileBands bands
MaxProfileBands == 2

GenericBands ==
    {[startFreq |-> b[1], endFreq |-> b[2], gain |-> g] : b \in BandSet, g \in Gains}

\* the same bands for the core equalizer: one slider per band, its gain the band's
SlidersOf(bands) ==
    [i \in 1..Len(bands) |->
        [frequency_bands |-> << <<bands[i].startFreq, bands[i].endFreq>> >>]]

GainsOf(bands) == [i \in 1..Len(bands) |-> bands[i].gain]

\* both equalizers build their multipliers for a signal of n samples, n a power of
\* two, so that both transforms have n bins
BuildProfiles ==
    /\ call = "none"
    /\ \E n \in TransformLengths, sample_rate \in SampleRates,
          bands \in SeqsUpTo(GenericBands, MaxProfileBands) :
        /\ call' = "profiles"
        /\ arg' = [n |-> n, sample_rate |-> sample_rate, bands |-> bands,
                   sliders_config |-> SlidersOf(bands), slider_values |-> GainsOf(bands)]
        /\ ret' = [gain_profile   |-> gain_profile(n, sample_rate, bands),
                   frequency_mask |-> frequency_mask(n, sample_rate, SlidersOf(bands),
                                                     GainsOf(bands))]
        /\ prev' = prev

(***************************************************************************)
(* The preset store of the generic endpoint, generic_mode.py lines 59-198. *)
(* The presets directory is a function from file names (without ".json")   *)
(* to the JSON object the file holds; created_at is left out.  A request   *)
(* leaves the directory in ret.presets_dir and the one it found in         *)
(* prev.presets_dir.  ret.saved remembers, per name as requested, the      *)
(* bands and description of the last save that succeeded under it and was  *)
(* not followed by a delete of it.                                         *)
(***************************************************************************)

\* dict.get(key, default) on a JSON object or on the query arguments
Get(data, key, default) == IF key \in DOMAIN data THEN data[key] ELSE default

\* str.strip() on the names of the requests
Strip(name) ==
    IF name = " a" THEN "a" ELSE IF name = "  " THEN "" ELSE name

\* mutant: every band accepted
bands_valid_always(bands) == TRUE

\* lines 114-116: every band has the keys startFreq, endFreq and gain
bands_valid(bands) ==
    \A i \in 1..Len(bands) : {"startFreq", "endFreq", "gain"} \subseteq DOMAIN bands[i]

\* lines 160-171: the preset returned for a name that has no file
default_preset(preset_name) ==
    [name        |-> preset_name,
     description |-> "Default equalizer preset",
     bands       |-> << [id |-> 1, startFreq |-> 20, endFreq |-> 250, gain |-> 1],
                        [id |-> 2, startFreq |-> 250, endFreq |-> 1000, gain |-> 1],
                        [id |-> 3, startFreq |-> 1000, endFreq |-> 4000, gain |-> 1],
                        [id |-> 4, startFreq |-> 4000, endFreq |-> 20000, gain |-> 1] >>,
     is_default  |-> TRUE]

\* mutant: the default preset written to the directory, as the log line says
load_missing_creates(presets_dir, preset_name) ==
    (preset_name :> default_preset(preset_name)) @@ presets_dir

\* lines 157-172: the else branch of load_preset writes nothing
load_missing(presets_dir, preset_name) == presets_dir

\* save_preset, lines 98-141; data is what request.get_json() returned
save_preset(presets_dir, data) ==
    IF DOMAIN data = {}
    THEN [code |-> 400, response |-> [error |-> "No JSON data provided"],
          presets_dir |-> presets_dir]
    ELSE
      LET preset_name == Strip(Get(data, "name", "preset"))
          bands       == Get(data, "bands", <<>>)
          description == Get(data, "description", "Custom equalizer preset")
          preset_data == [name |-> preset_name, description |-> description,
                          bands |-> bands, version |-> "1.0"]
      IN  IF preset_name = ""
          THEN [code |-> 400, response |-> [error |-> "Preset name cannot be empty"],
                presets_dir |-> presets_dir]
          ELSE IF ~bands_valid(bands)
          THEN [code |-> 400, response |-> [error |-> "Invalid band structure"],
                presets_dir |-> presets_dir]
          ELSE [code |-> 200, response |-> preset_data,
                presets_dir |-> (preset_name :> preset_data) @@ presets_dir]

\* load_preset, lines 143-176
load_preset(presets_dir, args) ==
    LET preset_name == Get(args, "name", "default")
    IN  IF preset_name \in DOMAIN presets_dir
        THEN [code |-> 200, response |-> presets_dir[preset_name],
              presets_dir |-> presets_dir]
        ELSE [code |-> 200, response |-> default_preset(preset_name),
              presets_dir |-> load_missing(presets_dir, preset_name)]

\* delete_preset, lines 178-198
delete_preset(presets_dir, args) ==
    IF "name" \notin DOMAIN args \/ args.name = ""
    THEN [code |-> 400, response |-> [error |-> "Preset name is required"],
          presets_dir |-> presets_dir]
    ELSE IF args.name \in DOMAIN presets_dir
    THEN [code |-> 200, response |-> [message |-> "deleted"],
          presets_dir |-> [n \in DOMAIN presets_dir \ {args.name} |-> presets_dir[n]]]
    ELSE [code |-> 404, response |-> [error |-> "Preset not found"],
          presets_dir |-> presets_dir]

\* list_presets, lines 59-96: one entry per file, in the directory's order
list_presets(presets_dir) ==
    [code |-> 200,
     response |-> {[name        |-> n,
                    description |-> presets_dir[n].description,
                    band_count  |-> Len(presets_dir[n].bands),
                    bands       |-> presets_dir[n].bands] : n \in DOMAIN presets_dir},
     presets_dir |-> presets_dir]

\* lines 791-832: the directory when the module has been loaded; one of the three
\* default presets is kept
InitialPresets ==
    ("flat" :> [name |-> "Flat", description |-> "Flat frequency response",
                bands |-> << [id |-> 1, startFreq |-> 20, endFreq |-> 20000,
                              gain |-> 1] >>])

\* the names save requests use: plain, padded with a blank, blank
SaveNames == {"a", " a", "  "}

\* the names load and delete requests use: those, and a default preset's
RequestNames == SaveNames \cup {"flat"}

\* the band lists requests carry; the last one has a valid band before one
\* that lacks its gain
RequestBands ==
    { <<>>,
      << [startFreq |-> 20, endFreq |-> 250, gain |-> 2] >>,
      << [startFreq |-> 20, endFreq |-> 250, gain |-> 2],
         [startFreq |-> 250, endFreq |-> 1000] >> }

\* a JSON object with the key, one for each value, and one without it
WithKey(key, values) == {(key :> v) : v \in values} \cup {<<>>}

\* the bodies of save requests as request.get_json() gives them; the empty
\* object stands for every body that is no JSON data to the handler
SaveBodies ==
    {n @@ b @@ d : n \in WithKey("name", SaveNames),
                   b \in WithKey("bands", RequestBands),
                   d \in WithKey("description", {"warm"})}

\* the query arguments of load and delete requests
NameArgs == WithKey("name", RequestNames)

PresetCalls == {"save_preset", "load_preset", "delete_preset", "list_presets"}

\* the directory and the memory of saves as the last request left them
presets_now == IF call = "none" THEN InitialPresets ELSE ret.presets_dir

saved_now == IF call = "none" THEN <<>> ELSE ret.saved

padded_now == IF call = "none" THEN FALSE ELSE ret.padded

Answered(op, request, result, saved, padded) ==
    /\ call' = op
    /\ arg' = request
    /\ prev' = [presets_dir |-> presets_now]
    /\ ret' = [code |-> result.code, response |-> result.response,
               presets_dir |-> result.presets_dir, saved |-> saved, padded |-> padded]

SavePreset ==
    /\ call \in PresetCalls \cup {"none"}
    /\ \E data \in SaveBodies :
        LET result == save_preset(presets_now, data)
        IN  Answered("save_preset", data, result,
                     IF result.code = 200
                     THEN (Get(data, "name", "preset") :> data) @@ saved_now
                     ELSE saved_now,
                     padded_now \/ (/\ result.code = 200
                                    /\ Strip(Get(data, "name", "preset"))
                                           # Get(data, "name", "preset")))

LoadPreset ==
    /\ call \in PresetCalls \cup {"none"}
    /\ \E args \in NameArgs :
        Answered("load_preset", args, load_preset(presets_now, args),
                 saved_now, padded_now)

DeletePreset ==
    /\ call \in PresetCalls \cup {"none"}
    /\ \E args \in NameArgs :
        LET result == delete_preset(presets_now, args)
        IN  Answered("delete_preset", args, result,
                     IF result.code = 200
                     THEN [n \in DOMAIN saved_now \ {args.name} |-> saved_now[n]]
                     ELSE saved_now,
                     padded_now)

ListPresets ==
    /\ call \in PresetCalls \cup {"none"}
    /\ Answered("list_presets", <<>>, list_presets(presets_now),
                saved_now, padded_now)

NextFFT == Forward \/ Inverse \/ InverseOfForward

NextMask == BuildMask

NextEq == Equalize

NextProcess == ProcessSignal

NextSpectrogram == ComputeSpectrogram \/ ComputeSpectrum \/ AnalyzeAudio

NextRun == CallForward \/ Enter \/ Return

NextTone == Tone

NextHandler == ProcessAudio

NextProfiles == BuildProfiles

NextPresets == SavePreset \/ LoadPreset \/ DeletePreset \/ ListPresets

NextCalls == MakeCalls \/ StepForward \/ StepInverse \/ StepEqualizer \/ StepSpectrogram

Next ==
    \/ NextFFT \/ NextMask \/ NextEq \/ NextProcess \/ NextSpectrogram \/ NextRun
    \/ NextCalls \/ NextTone \/ NextHandler \/ NextProfiles \/ NextPresets

\* the transform engine alone
SpecFFT == Init /\ [][NextFFT]_vars

\* the mask builder alone
SpecMask == Init /\ [][NextMask]_vars

\* the equalizer called directly
SpecEq == Init /\ [][NextEq]_vars

\* the equalizer behind process_signal
SpecProcess == Init /\ [][NextProcess]_vars

\* the spectrogram and the two spectrum handlers
SpecSpectrogram == Init /\ [][NextSpectrogram]_vars

\* custom_fft call by call; a call that has been made keeps running
SpecRun == Init /\ [][NextRun]_vars /\ WF_vars(Enter) /\ WF_vars(Return)

\* one or two invocations of the four operations, their statements interleaved
SpecCalls == Init /\ [][NextCalls]_vars

\* forward on pure sines
SpecTone == Init /\ [][NextTone]_vars

\* the /process handler
SpecHandler == Init /\ [][NextHandler]_vars

\* the generic endpoint's gain profile next to the core mask
SpecProfiles == Init /\ [][NextProfiles]_vars

\* requests to the preset store, one after the other
SpecPresets == Init /\ [][NextPresets]_vars

Spec == Init /\ [][Next]_vars

----------------------------------------------------------------------------
(* Reference definitions the properties are stated with *)

IsPowerOfTwo(m) == \E e \in 0..m : Pow2(e) = m

\* the smallest power of two that is >= n, for n >= 1
SmallestPowerOfTwoAtLeast(n) ==
    CHOOSE m \in n..(2 * n) :
        IsPowerOfTwo(m) /\ \A l \in n..(m - 1) : ~IsPowerOfTwo(l)

\* x followed by zeros up to length m
ZeroPadded(x, m) == [j \in 1..m |-> IF j <= Len(x) THEN x[j] ELSE CZero]

RECURSIVE CSum(_)
CSum(s) == IF s = <<>> THEN CZero ELSE CAdd(Head(s), CSum(Tail(s)))

\* exp(-2*pi*i*k/n) for n in {1, 2, 4, 8}
RootOfUnity(k, n) == WPow(k * (8 \div n))

\* the discrete Fourier transform X[k] = sum_j x[j]*exp(-2*pi*i*j*k/n), n = Len(x)
DFT(x) ==
    [k \in 1..Len(x) |->
        CSum([j \in 1..Len(x) |-> CMul(x[j], RootOfUnity((j - 1) * (k - 1), Len(x)))])]

\* |f(k)| * n for bin k (0-based) of n bins: f(k) = k*sample_rate/n for k < n/2 and
\* (k - n)*sample_rate/n for k >= n/2
AbsBinFreqTimesN(k, n, sample_rate) ==
    IF 2 * k < n THEN k * sample_rate ELSE (n - k) * sample_rate

\* |f(k)| lies in [low_freq, high_freq]
BandHolds(band, k, n, sample_rate) ==
    /\ band[1] * n <= AbsBinFreqTimesN(k, n, sample_rate)
    /\ AbsBinFreqTimesN(k, n, sample_rate) <= band[2] * n

RECURSIVE GainOfBands(_, _, _, _, _)
GainOfBands(bands, gain, k, n, sample_rate) ==
    IF bands = <<>> THEN 1
    ELSE (IF BandHolds(Head(bands), k, n, sample_rate) THEN gain ELSE 1)
         * GainOfBands(Tail(bands), gain, k, n, sample_rate)

\* the product of the gains of the bands that hold |f(k)|, over the paired sliders and gains
RECURSIVE GainOfSliders(_, _, _, _, _)
GainOfSliders(sliders, gains, k, n, sample_rate) ==
    IF sliders = <<>> \/ gains = <<>> THEN 1
    ELSE GainOfBands(Head(sliders).frequency_bands, Head(gains), k, n, sample_rate)
         * GainOfSliders(Tail(sliders), Tail(gains), k, n, sample_rate)

\* every band is a Band of the data model: 0 <= low_freq <= high_freq <= sample_rate/2
BandsInRange(sliders, sample_rate) ==
    \A i \in 1..Len(sliders) :
        \A b \in 1..Len(sliders[i].frequency_bands) :
            LET band == sliders[i].frequency_bands[b]
            IN  0 <= band[1] /\ band[1] <= band[2] /\ 2 * band[2] <= sample_rate

\* the signal as the equalizer's transform sees it: zero-padded to the transform length
PaddedSignal(signal) ==
    LET m == IF Len(signal) <= 1 THEN Len(signal)
             ELSE SmallestPowerOfTwoAtLeast(Len(signal))
    IN  [j \in 1..m |-> IF j <= Len(signal) THEN signal[j] ELSE 0]

\* the largest absolute value of an integer sequence (0 when it is empty)
RECURSIVE PeakOfInts(_)
PeakOfInts(s) ==
    IF s = <<>> THEN 0
    ELSE LET m == PeakOfInts(Tail(s))
         IN  IF AbsInt(Head(s)) >= m THEN AbsInt(Head(s)) ELSE m

AllGainsOne(gains) == \A i \in 1..Len(gains) : gains[i] = 1

----------------------------------------------------------------------------
(* Properties *)

\* C1: a call of the equalizer with a slider list and a gain list of different
\* lengths fails with an error and computes nothing (no transform, no mask).
C1_MismatchedListsRaise ==
    (/\ call = "equalizer"
     /\ Len(arg.sliders_config) # Len(arg.slider_values)
     /\ BandsInRange(arg.sliders_config, arg.sample_rate))
        => ret.status = "raised"

\* C2: with bands of the data model paired with gains, mask entry k is the product
\* of the gains of exactly the bands that hold |f(k)|, each gain applied once, for
\* every bin 0 <= k < n, the DC bin and the Nyquist bin included.
C2_EntryIsProductOfMatchingGains ==
    (/\ call = "mask"
     /\ Len(arg.sliders_config) = Len(arg.slider_values)
     /\ BandsInRange(arg.sliders_config, arg.sample_rate))
        => \A k \in 0..(arg.n - 1) :
              ret.frequency_mask[k + 1] =
                  GainOfSliders(arg.sliders_config, arg.slider_values,
                                k, arg.n, arg.sample_rate)

\* C3: with the single slider [0, sample_rate/2] and gain g > 0 the reconstructed
\* signal before normalization is g times the one obtained with gain 1.
C3_FullBandScalesByGain ==
    (/\ call = "equalizer"
     /\ ret.status = "returned"
     /\ Len(arg.sliders_config) = 1
     /\ Len(arg.slider_values) = 1
     /\ arg.slider_values[1] > 0
     /\ Len(arg.sliders_config[1].frequency_bands) = 1
     /\ arg.sliders_config[1].frequency_bands[1][1] = 0
     /\ 2 * arg.sliders_config[1].frequency_bands[1][2] = arg.sample_rate)
        => LET unit == apply_multi_band_equalizer(arg.signal, arg.sliders_config,
                                                  <<1>>, arg.sample_rate)
           IN  ret.processed_signal =
                  [j \in 1..Len(unit.processed_signal) |->
                      RTimesInt(arg.slider_values[1], unit.processed_signal[j])]

\* C4: the mask is mirror-symmetric: mask[k] = mask[n - k] for 1 <= k < n.
C4_MaskMirrorSymmetric ==
    call = "mask"
        => \A k \in 1..(arg.n - 1) :
              ret.frequency_mask[k + 1] = ret.frequency_mask[arg.n - k + 1]

\* a mask of 8 bins that a band changed at bin 1 and its mirror bin 7 only
C4_Witness ==
    /\ call = "mask"
    /\ arg.n = 8
    /\ ret.frequency_mask[2] = 2
    /\ ret.frequency_mask[8] = 2
    /\ ret.frequency_mask[4] = 1
    /\ ret.frequency_mask[6] = 1

\* C5: for an input of length n >= 2 the spectrum's length is the smallest power of
\* two >= n (n itself when n is a power of two), and the spectrum is the transform
\* of the input with zeros appended at its end up to that length.
C5_ForwardPadsToNextPowerOfTwo ==
    (call = "forward" /\ Len(arg.x) >= 2)
        => /\ IsPowerOfTwo(Len(ret.y))
           /\ Len(ret.y) >= Len(arg.x)
           /\ \A m \in Len(arg.x)..(Len(ret.y) - 1) : ~IsPowerOfTwo(m)
           /\ (IsPowerOfTwo(Len(arg.x)) => Len(ret.y) = Len(arg.x))
           /\ ret.y = DFT(ZeroPadded(arg.x, Len(ret.y)))

\* forward on 5 samples, the last of them not zero, returned 8 bins
C5_Witness ==
    /\ call = "forward"
    /\ Len(arg.x) = 5
    /\ arg.samples[5] # 0
    /\ Len(ret.y) = 8

\* C6: inverse(X) is conj(forward(conj(X))) divided by the length of that forward
\* result, for every length of X.
C6_InverseDividesByTransformLength ==
    call = "inverse"
        => LET transform == custom_fft([j \in 1..Len(arg.x) |-> CConj(arg.x[j])])
           IN  ret.y = [j \in 1..Len(transform) |->
                           CQuot(CConj(transform[j]), Len(transform))]

\* C7: for a real sequence S of length >= 1, the real part of inverse(forward(S))
\* is S zero-padded to the next power of two, element by element.
C7_RoundTrip ==
    (call = "inverse" /\ prev.call = "forward" /\ Len(prev.arg.samples) >= 1)
        => LET S == prev.arg.samples
               m == SmallestPowerOfTwoAtLeast(Len(S))
           IN  /\ Len(ret.y) = m
               /\ \A j \in 1..m :
                     RealPart(ret.y[j]) = RInt(IF j <= Len(S) THEN S[j] ELSE 0)

\* inverse was applied to the spectrum of 3 samples, none of them zero
C7_Witness ==
    /\ call = "inverse"
    /\ prev.call = "forward"
    /\ Len(prev.arg.samples) = 3
    /\ \A j \in 1..3 : prev.arg.samples[j] # 0
    /\ Len(ret.y) = 4

\* C8: the forward transform of an input of (padded) length n >= 2 combines the
\* transforms E and O of its even- and odd-indexed halves as E[k] + w(k,n)*O[k] and
\* E[k] - w(k,n)*O[k], w(k,n) = exp(-2*pi*i*k/n), and is the discrete Fourier
\* transform of the (padded) input.
C8_ButterflyIsDFT ==
    (call = "forward" /\ Len(arg.x) >= 2)
        => LET n  == Len(ret.y)
               xp == ZeroPadded(arg.x, n)
               E  == DFT(EvenPart(xp))
               O  == DFT(OddPart(xp))
           IN  /\ ret.y = DFT(xp)
               /\ \A k \in 0..((n \div 2) - 1) :
                     /\ ret.y[k + 1] =
                            CAdd(E[k + 1], CMul(RootOfUnity(k, n), O[k + 1]))
                     /\ ret.y[k + 1 + (n \div 2)] =
                            CSub(E[k + 1], CMul(RootOfUnity(k, n), O[k + 1]))

\* forward on 4 samples, a power of two, whose odd-indexed half is not silent:
\* the twiddle factor -i of k = 1 has acted
C8_Witness ==
    /\ call = "forward"
    /\ Len(arg.x) = 4
    /\ arg.samples[2] # 0
    /\ arg.samples[4] # arg.samples[2]
    /\ ret.y[2] # ret.y[4]

\* C9 as stated: with every gain 1 the equalizer returns the input itself,
\* zero-padded to the transform length, whatever its peak amplitude.
C9_IdentityReturnsInput ==
    (/\ call = "equalizer"
     /\ ret.status = "returned"
     /\ Len(arg.sliders_config) >= 1
     /\ Len(arg.slider_values) = Len(arg.sliders_config)
     /\ BandsInRange(arg.sliders_config, arg.sample_rate)
     /\ AllGainsOne(arg.slider_values))
        => ret.result = [j \in 1..Len(PaddedSignal(arg.signal)) |->
                            RInt(PaddedSignal(arg.signal)[j])]

\* C9 amended: with every gain 1 the equalizer returns the zero-padded input
\* divided by its peak absolute amplitude (the input itself when it is all zero).
C9_IdentityReturnsPeakNormalizedInput ==
    (call = "equalizer" /\ ret.status = "returned" /\ AllGainsOne(arg.slider_values))
        => LET padded == PaddedSignal(arg.signal)
               pk     == PeakOfInts(arg.signal)
           IN  ret.result = [j \in 1..Len(padded) |->
                                IF pk > 0 THEN RMake(padded[j], 0, pk)
                                ELSE RInt(padded[j])]

\* gain 1 on one slider, a padded 3-sample input of peak 2
C9_Witness ==
    /\ call = "equalizer"
    /\ ret.status = "returned"
    /\ Len(arg.sliders_config) = 1
    /\ arg.slider_values = <<1>>
    /\ Len(arg.signal) = 3
    /\ PeakOfInts(arg.signal) = 2
    /\ Len(ret.result) = 4

\* C10: when the reconstructed signal has a nonzero peak, every sample is divided
\* by that peak and the returned signal has peak absolute amplitude exactly 1, for
\* every gain set.
C10_NormalizedToUnitPeak ==
    (/\ call = "equalizer"
     /\ ret.status = "returned"
     /\ \E j \in 1..Len(ret.processed_signal) : RSign(ret.processed_signal[j]) # 0)
        => \E m \in 1..Len(ret.processed_signal) :
              LET pk == RAbs(ret.processed_signal[m])
              IN  /\ \A j \in 1..Len(ret.processed_signal) :
                        RLeq(RAbs(ret.processed_signal[j]), pk)
                  /\ Len(ret.result) = Len(ret.processed_signal)
                  /\ \A j \in 1..Len(ret.result) :
                        /\ ret.result[j] = RDiv(ret.processed_signal[j], pk)
                        /\ RLeq(RAbs(ret.result[j]), RInt(1))
                  /\ RAbs(ret.result[m]) = RInt(1)

\* every gain 1 and a reconstructed signal whose peak is not 1: it is rescaled
C10_Witness ==
    /\ call = "equalizer"
    /\ ret.status = "returned"
    /\ Len(arg.sliders_config) = 1
    /\ arg.slider_values = <<1>>
    /\ ret.processed_signal = <<RInt(-2), RInt(1)>>
    /\ ret.result = <<RInt(-1), RMake(1, 0, 2)>>

\* C11: for an all-zero input of length >= 2, and for any input whose reconstruction
\* is all zero, the equalizer raises nothing, divides nothing and returns zeros.
C11_SilenceStaysSilent ==
    /\ (/\ call = "equalizer"
        /\ Len(arg.signal) >= 2
        /\ \A j \in 1..Len(arg.signal) : arg.signal[j] = 0)
           => /\ ret.status = "returned"
              /\ \A j \in 1..Len(ret.processed_signal) :
                    ret.processed_signal[j] = RInt(0)
    /\ (/\ call = "equalizer"
        /\ ret.status = "returned"
        /\ \A j \in 1..Len(ret.processed_signal) : ret.processed_signal[j] = RInt(0))
           => /\ Len(ret.result) = Len(ret.processed_signal)
              /\ \A j \in 1..Len(ret.result) : ret.result[j] = RInt(0)

\* three zero samples went through a slider of gain 2 and came back as four zeros
C11_Witness ==
    /\ call = "equalizer"
    /\ arg.signal = <<0, 0, 0>>
    /\ Len(arg.sliders_config) = 1
    /\ arg.slider_values = <<2>>
    /\ ret.status = "returned"
    /\ ret.result = <<RInt(0), RInt(0), RInt(0), RInt(0)>>

\* C12: for an input of length >= 2 the returned signal has the padded transform
\* length, the smallest power of two >= the input length, not the input length.
C12_OutputHasPaddedLength ==
    (call = "equalizer" /\ Len(arg.signal) >= 2)
        => /\ ret.status = "returned"
           /\ Len(ret.result) = SmallestPowerOfTwoAtLeast(Len(arg.signal))
           /\ Len(ret.result) = Len(ret.fft_result)

\* three samples, the last not zero, came back as four
C12_Witness ==
    /\ call = "equalizer"
    /\ Len(arg.signal) = 3
    /\ arg.signal[3] # 0
    /\ ret.status = "returned"
    /\ Len(ret.result) = 4
    /\ ret.result[4] = RInt(0)

\* C13: the spectrogram matrix has floor((max(N, W) - W) / H) + 1 columns and
\* floor(W / 2) rows; a signal shorter than the window gives one frame, and
\* N = 2048, W = 512, H = 256 gives shape (256, 7).
C13_SpectrogramShape ==
    call = "spectrogram" =>
        LET N == arg.signal_len
            W == arg.window_size
            H == arg.hop_size
            longer == IF N > W THEN N ELSE W
        IN  /\ ret.shape = << W \div 2, (longer - W) \div H + 1 >>
            /\ \A i \in 1..Len(ret.spectrogram) :
                  /\ ret.spectrogram[i].window_len = W
                  /\ ret.spectrogram[i].magnitude = W \div 2
            /\ N < W => ret.shape[2] = 1
            /\ (N = 2048 /\ W = 512 /\ H = 256) => ret.shape = <<256, 7>>

\* the worked example was computed
C13_Witness ==
    /\ call = "spectrogram"
    /\ arg.signal_len = 2048 /\ arg.window_size = 512 /\ arg.hop_size = 256
    /\ ret.shape = <<256, 7>>
    /\ ret.spectrogram[7].end = 2048

\* C14: time_axis has one entry per column, i * hop_size / sample_rate, and
\* freq_axis one entry per row, j * sample_rate / window_size.
C14_AxesMatchMatrix ==
    call = "spectrogram" =>
        /\ Len(ret.freq_axis) = ret.shape[1]
        /\ Len(ret.time_axis) = ret.shape[2]
        /\ \A i \in 1..Len(ret.time_axis) :
              ret.time_axis[i][1] * arg.sample_rate
                  = (i - 1) * arg.hop_size * ret.time_axis[i][2]
        /\ \A j \in 1..Len(ret.freq_axis) :
              ret.freq_axis[j][1] * arg.window_size
                  = (j - 1) * arg.sample_rate * ret.freq_axis[j][2]

\* a matrix of three rows and two columns with its axes
C14_Witness ==
    /\ call = "spectrogram"
    /\ arg.window_size = 6 /\ arg.hop_size = 2 /\ arg.sample_rate = 8
    /\ ret.shape = <<3, 2>>
    /\ ret.time_axis = << <<0, 8>>, <<2, 8>> >>
    /\ ret.freq_axis = << <<0, 6>>, <<8, 6>>, <<16, 6>> >>

\* C15: every caller labels bin j of a forward transform of length P with
\* j * sample_rate / P, also when the samples passed in are not a power of two long.
C15_BinsLabelledByPaddedLength ==
    /\ call = "spectrogram" =>
          \A i \in 1..Len(ret.spectrogram) : \A j \in 1..Len(ret.freq_axis) :
              ret.freq_axis[j][1] * ret.spectrogram[i].fft_frame
                  = (j - 1) * arg.sample_rate * ret.freq_axis[j][2]
    /\ (call \in {"compute_spectrum", "analyze_audio"} /\ ret.status = "returned") =>
          \A j \in 1..Len(ret.frequencies) :
              ret.frequencies[j][1] * ret.fft_data
                  = (j - 1) * arg.sample_rate * ret.frequencies[j][2]

\* the (slider, band) positions whose band holds |f(k)|
MatchingBands(sliders, k, n, sample_rate) ==
    {p \in (1..Len(sliders)) \X (1..MaxBands + 1) :
        /\ p[2] <= Len(sliders[p[1]].frequency_bands)
        /\ BandHolds(sliders[p[1]].frequency_bands[p[2]], k, n, sample_rate)}

Reversed(s) == [j \in 1..Len(s) |-> s[Len(s) + 1 - j]]

\* the sliders in reverse order, each with its bands in reverse order
ReversedConfig(sliders) ==
    [j \in 1..Len(sliders) |->
        [frequency_bands |-> Reversed(sliders[Len(sliders) + 1 - j].frequency_bands)]]

\* the mask does not depend on the order of the sliders or of a slider's bands
MaskIsOrderFree ==
    (call = "mask" /\ Len(arg.sliders_config) = Len(arg.slider_values))
        => /\ ret.frequency_mask =
                frequency_mask(arg.n, arg.sample_rate,
                               Reversed(arg.sliders_config), Reversed(arg.slider_values))
           /\ ret.frequency_mask =
                frequency_mask(arg.n, arg.sample_rate,
                               ReversedConfig(arg.sliders_config),
                               Reversed(arg.slider_values))

\* C16: a bin matched by several bands, of one slider or of several, ends with the
\* product of all their gains, and the mask is the same for every reordering of
\* the sliders and of the bands within a slider.
C16_OverlapsCompound ==
    (/\ call = "mask"
     /\ Len(arg.sliders_config) = Len(arg.slider_values)
     /\ BandsInRange(arg.sliders_config, arg.sample_rate))
        => /\ \A k \in 0..(arg.n - 1) :
                Cardinality(MatchingBands(arg.sliders_config, k, arg.n,
                                          arg.sample_rate)) >= 2
                    => ret.frequency_mask[k + 1] =
                          GainOfSliders(arg.sliders_config, arg.slider_values,
                                        k, arg.n, arg.sample_rate)
           /\ MaskIsOrderFree

\* every band has 0 <= low_freq
BandsNotBelowZero(sliders) ==
    \A i \in 1..Len(sliders) :
        \A b \in 1..Len(sliders[i].frequency_bands) :
            0 <= sliders[i].frequency_bands[b][1]

\* a bin whose |f(k)| no band holds keeps the multiplier 1
UnmatchedBinsKeepOne ==
    \A k \in 0..(arg.n - 1) :
        MatchingBands(arg.sliders_config, k, arg.n, arg.sample_rate) = {}
            => ret.frequency_mask[k + 1] = 1

\* C17: a mask entry whose |f(k)| lies in none of the supplied bands keeps the
\* multiplier 1 whatever the gains of the bands are.
C17_UnmatchedBinsPassThrough ==
    (call = "mask" /\ Len(arg.sliders_config) = Len(arg.slider_values))
        => UnmatchedBinsKeepOne

\* the same for bands that do not start below 0
C17_HoldsForBandsFromZeroUp ==
    (/\ call = "mask"
     /\ Len(arg.sliders_config) = Len(arg.slider_values)
     /\ BandsNotBelowZero(arg.sliders_config))
        => UnmatchedBinsKeepOne

\* the sliders with band b of slider i taken out
WithoutBand(sliders, i, b) ==
    [j \in 1..Len(sliders) |->
        IF j # i THEN sliders[j]
        ELSE [frequency_bands |->
                 LET bs == sliders[j].frequency_bands
                 IN  SubSeq(bs, 1, b - 1) \o SubSeq(bs, b + 1, Len(bs))]]

AboveNyquist(band, sample_rate) == 2 * band[1] > sample_rate /\ band[1] <= band[2]

BelowZero(band) == band[2] < 0 /\ band[1] <= band[2]

\* taking out any band for which Outside holds leaves the mask as it is
DroppingIsNoOp(Outside(_)) ==
    \A i \in 1..Len(arg.sliders_config) :
        \A b \in 1..Len(arg.sliders_config[i].frequency_bands) :
            Outside(arg.sliders_config[i].frequency_bands[b])
                => ret.frequency_mask =
                      frequency_mask(arg.n, arg.sample_rate,
                                     WithoutBand(arg.sliders_config, i, b),
                                     arg.slider_values)

\* C18: a band entirely above the Nyquist frequency or entirely below 0 changes
\* no mask entry: the mask is the same as if the band had not been supplied.
C18_OutsideBandsAreNoOps ==
    (call = "mask" /\ Len(arg.sliders_config) = Len(arg.slider_values))
        => LET Outside(band) == AboveNyquist(band, arg.sample_rate) \/ BelowZero(band)
           IN  DroppingIsNoOp(Outside)

\* the same for the bands above the Nyquist frequency alone
C18_HoldsAboveNyquist ==
    (call = "mask" /\ Len(arg.sliders_config) = Len(arg.slider_values))
        => LET Outside(band) == AboveNyquist(band, arg.sample_rate)
           IN  DroppingIsNoOp(Outside)

\* C19: for an input of length 0 or 1 the forward transform returns its input
\* unchanged: same elements, same length, no padding, no recursive call.
C19_ShortInputReturnedUnchanged ==
    (call \in {"running", "returned", "raised"} /\ Len(arg.x) <= 1) =>
        /\ call = "running" => ret.stack \in {<<NewFrame(arg.x)>>,
                                             <<[NewFrame(arg.x) EXCEPT !.pc = "done",
                                                                       !.value = arg.x]>>}
        /\ call = "returned" => ret.y = arg.x
        /\ call # "raised"

\* the transform of the single sample 1 returned
C19_Witness ==
    /\ call = "returned"
    /\ arg.samples = <<1>>
    /\ ret.y = <<CReal(1)>>

\* C20: the forward transform terminates and returns a spectrum without raising,
\* for every input of positive length, a power of two or not.
C20_ForwardTerminates ==
    (call = "running" /\ Len(arg.x) >= 1)
        ~> (call = "returned" /\ ret.y = custom_fft(arg.x))

\* the transform of five samples, the last not zero, returned eight bins
C20_Witness ==
    /\ call = "returned"
    /\ Len(arg.x) = 5
    /\ arg.samples[5] # 0
    /\ Len(ret.y) = 8

\* the ids of the arrays the callers hold
CallerObjects == {id \in DOMAIN prev.heap : id[1] = 0}

\* the ids some invocation has returned
ReturnedObjects ==
    {ret.threads[t].result :
        t \in {u \in 1..Len(ret.threads) : ret.threads[u].status = "returned"}}

AllFinished == \A t \in 1..Len(ret.threads) : ret.threads[t].status # "running"

\* C21: forward, inverse, the equalizer and the spectrogram builder leave the
\* arrays passed to them unchanged, and what they allocate does not outlive the
\* call: when every invocation is over, the heap holds the callers' arrays and
\* the returned results and nothing else.
C21_ArgumentsUnchangedNothingKept ==
    call = "calls" =>
        /\ \A id \in CallerObjects : id \in DOMAIN ret.heap /\ ret.heap[id] = prev.heap[id]
        /\ AllFinished => DOMAIN ret.heap = CallerObjects \cup ReturnedObjects

\* an equalizer on two samples and an inverse of a spectrum with an imaginary
\* part are both over
C21_Witness ==
    /\ call = "calls"
    /\ Len(arg.calls) = 2
    /\ arg.calls[1] = <<"equalizer", <<0, "a">> >>
    /\ arg.calls[2] = <<"inverse", <<0, "b">> >>
    /\ prev.heap[<<0, "a">>] = <<CReal(1), CReal(0)>>
    /\ prev.heap[<<0, "b">>] = <<CReal(1), <<0, 0, 1, 0>> >>
    /\ AllFinished
    /\ ret.heap[<<0, "b">>] = <<CReal(1), <<0, 0, 1, 0>> >>

\* what operation fn returns when it runs alone on the array x
Alone(fn, x) ==
    IF fn = "forward" THEN [status |-> "returned", value |-> custom_fft(x)]
    ELSE IF fn = "inverse" THEN [status |-> "returned", value |-> custom_ifft(x)]
    ELSE IF fn = "equalizer"
    THEN LET r == apply_multi_band_equalizer(RealSamples(x), CallSliders, CallGains,
                                             arg.sample_rate)
         IN  IF r.status = "returned"
             THEN [status |-> "returned", value |-> r.result]
             ELSE [status |-> "raised", value |-> <<>>]
    ELSE [status |-> "returned",
          value  |-> spectrogram_frames(
                        IF Len(x) < arg.window_size
                        THEN PadEnd(x, arg.window_size - Len(x)) ELSE x,
                        arg.window_size, arg.hop_size)]

\* C22: in every interleaving of concurrent invocations each one returns what it
\* returns when run alone on the same arguments.
C22_InterleavingsChangeNoResult ==
    call = "calls" =>
        \A t \in 1..Len(ret.threads) :
            LET th    == ret.threads[t]
                alone == Alone(th.fn, prev.heap[th.arg])
            IN  th.status # "running" =>
                    /\ th.status = alone.status
                    /\ th.status = "returned" => ret.heap[th.result] = alone.value

\* two equalizers ran on two arrays, the second of them finishing first
C22_Witness ==
    /\ call = "calls"
    /\ Len(arg.calls) = 2
    /\ arg.calls[1] = <<"equalizer", <<0, "a">> >>
    /\ arg.calls[2] = <<"equalizer", <<0, "b">> >>
    /\ prev.heap[<<0, "a">>] = <<CReal(1), CReal(0)>>
    /\ prev.heap[<<0, "b">>] = <<CReal(1), CReal(1)>>
    /\ ret.threads[1].pc = "multiply"
    /\ ret.threads[2].status = "returned"

\* round(num / den) as Python rounds: to the nearest integer, a half to the even one
RoundHalfEven(num, den) ==
    LET q == num \div den
        r == num % den
    IN  IF 2 * r < den THEN q
        ELSE IF 2 * r > den THEN q + 1
        ELSE IF q % 2 = 0 THEN q ELSE q + 1

\* the bins (from 0) whose magnitude is the largest one up to rounding: within a
\* twentieth of the largest square
LargestBins ==
    {k \in 0..(Len(ret.magnitudes) - 1) :
        \A j \in 1..Len(ret.magnitudes) :
            ret.magnitudes[k + 1] + ret.magnitudes[j] \div 20 >= ret.magnitudes[j]}

\* a largest bin lies within one bin of round(f0 * N / sr)
PeakWithinOneBin ==
    LET expected == RoundHalfEven(arg.f0 * arg.N, arg.sample_rate)
    IN  \E k \in LargestBins : k - expected \in {-1, 0, 1}

\* C23: for a pure sine of frequency f0 below the Nyquist frequency, N >= 2*f0
\* samples at rate sr, the largest of the first N/2 magnitudes of forward's
\* spectrum is at index round(f0*N/sr), within one bin, for every N.
C23_ToneLocalized ==
    (call = "tone" /\ 2 * arg.f0 < arg.sample_rate) => PeakWithinOneBin

\* the same for the lengths that are powers of two
C23_HoldsForPowersOfTwo ==
    (call = "tone" /\ 2 * arg.f0 < arg.sample_rate /\ IsPowerOfTwo(arg.N))
        => PeakWithinOneBin

\* C24: zero-padding happens at most once, in the top-level call: every recursive
\* sub-call works on a sequence whose length is a power of two and half of its
\* parent's padded length, and length 1 is reached exactly log2(P) levels below
\* the top call, P the padded length.
C24_PaddedOnceThenHalved ==
    (call = "running" /\ Len(arg.x) >= 1) =>
        LET P     == SmallestPowerOfTwoAtLeast(Len(arg.x))
            stack == ret.stack
        IN  /\ stack[1].pc = "enter" => stack[1].x = arg.x
            /\ stack[1].pc \in {"even", "odd"} => stack[1].x = ZeroPadded(arg.x, P)
            /\ \A d \in 2..Len(stack) :
                  /\ IsPowerOfTwo(Len(stack[d].x))
                  /\ 2 * Len(stack[d].x) = Len(stack[d - 1].x)
                  /\ Len(stack[d].x) * Pow2(d - 1) = P
            /\ \A d \in 1..Len(stack) :
                  Len(stack[d].x) = 1 <=> Pow2(d - 1) = P

\* five samples were padded to eight and a call on one sample sits three levels
\* below the top call
C24_Witness ==
    /\ call = "running"
    /\ Len(arg.x) = 5
    /\ arg.samples[5] # 0
    /\ Len(ret.stack) = 4
    /\ Len(ret.stack[1].x) = 8
    /\ Len(ret.stack[4].x) = 1

\* C25: every frame of the spectrogram lies inside the (padded) signal: frame i
\* starts at i*hop_size and i*hop_size + window_size <= len(signal), so it holds
\* exactly window_size samples; fewer than hop_size samples remain after the
\* last frame.
C25_FramesInsideSignal ==
    call = "spectrogram" =>
        LET len    == IF arg.signal_len > arg.window_size
                      THEN arg.signal_len ELSE arg.window_size
            frames == ret.spectrogram
        IN  /\ \A i \in 1..Len(frames) :
                  /\ frames[i].start = (i - 1) * arg.hop_size
                  /\ frames[i].end = frames[i].start + arg.window_size
                  /\ frames[i].end <= len
                  /\ frames[i].window_len = arg.window_size
            /\ len - frames[Len(frames)].end < arg.hop_size
            /\ len - frames[Len(frames)].end >= 0

\* three frames of four samples, hop 2, cut from nine samples: one sample is left
C25_Witness ==
    /\ call = "spectrogram"
    /\ arg.signal_len = 9 /\ arg.window_size = 4 /\ arg.hop_size = 2
    /\ Len(ret.spectrogram) = 3
    /\ ret.spectrogram[3].start = 4
    /\ ret.spectrogram[3].end = 8

\* the texts of the form field that are JSON
JsonTexts == {"[]", "[2]", "[1, 0]", "5", "\"a\""}

\* how many slider values a JSON text holds, as len() counts them
CountOf(text) ==
    IF text \in {"[2]", "\"a\""} THEN 1 ELSE IF text = "[1, 0]" THEN 2 ELSE 0

\* the form field, or its default
SlidersText == IF arg.request.sliders = "absent" THEN "[]" ELSE arg.request.sliders

\* everything the handler checks before the equalizer holds
RequestIsValid ==
    /\ arg.request.has_file
    /\ arg.request.filename # ""
    /\ SlidersText \in JsonTexts
    /\ arg.settings.status = "loaded"
    /\ Len(arg.settings.sliders) >= 1
    /\ SlidersText # "5"
    /\ CountOf(SlidersText) = Len(arg.settings.sliders)

\* C26: the /process handler invokes the equalizer only when a file part is
\* present, its filename is not empty, the slider values parse as JSON, the settings
\* hold at least one slider and the two counts are equal; any failure ends with 400
\* (missing or unnamed file) or with 500 and success = false, never with a result.
C26_EqualizerOnlyAfterValidation ==
    call = "process_audio" =>
        /\ (\E i \in 1..Len(ret.stages) : ret.stages[i] = "equalizer") => RequestIsValid
        /\ ret.code = 400 <=> (~arg.request.has_file \/ arg.request.filename = "")
        /\ ret.code \in {200, 400, 500}
        /\ ret.code # 200 => ret.body = [success |-> FALSE, error |-> ret.body.error]
        /\ ret.code = 400 => ret.stages = <<>>
        /\ ~RequestIsValid => ret.code # 200
        /\ ret.code = 200 => ret.body.success /\ Len(ret.body.output_signal) >= 1

\* a request that passes every check reached the equalizer and was answered
C26_Witness ==
    /\ call = "process_audio"
    /\ arg.request.has_file /\ arg.request.filename = "song.wav"
    /\ arg.request.sliders = "[2]"
    /\ arg.settings.status = "loaded"
    /\ Len(arg.settings.sliders) = 1
    /\ arg.audio.status = "loaded"
    /\ ~arg.later_failure
    /\ ret.code = 200
    /\ ret.stages[5] = "equalizer"

\* C27: for the same bands, gains and sample rate and a signal whose length is a
\* power of two, the generic endpoint's gain profile equals the core equalizer's
\* frequency mask bin for bin.
C27_ProfileEqualsMask ==
    (call = "profiles" /\ BandsInRange(arg.sliders_config, arg.sample_rate))
        => ret.gain_profile = ret.frequency_mask

\* the two agree on every bin but bin 0
C27_AgreeOffZeroHz ==
    (call = "profiles" /\ BandsInRange(arg.sliders_config, arg.sample_rate))
        => \A j \in 2..arg.n : ret.gain_profile[j] = ret.frequency_mask[j]

\* the load request names a preset whose last save, not followed by a delete of
\* that name, gave bands and a description
LoadAfterSave ==
    /\ call = "load_preset"
    /\ "name" \in DOMAIN arg
    /\ arg.name \in DOMAIN ret.saved
    /\ {"bands", "description"} \subseteq DOMAIN ret.saved[arg.name]

\* the load answers with the requested name and the bands and description of
\* that save
LoadReturnsLastSave ==
    LET last == ret.saved[arg.name]
    IN  /\ ret.code = 200
        /\ ret.response.name = arg.name
        /\ ret.response.bands = last.bands
        /\ ret.response.description = last.description

\* C28: after save_preset succeeds for name N with bands B and description D, a
\* load_preset of N with no save or delete of N in between returns name N,
\* description D and bands B; a later save under the same name replaces the
\* earlier one.
C28_PresetRoundTrip == LoadAfterSave => LoadReturnsLastSave

\* the round trip as long as no save under a name with surrounding blanks has
\* succeeded
C28_HoldsWithoutPaddedNames == (LoadAfterSave /\ ~ret.padded) => LoadReturnsLastSave

\* a preset saved under the name a with a band was loaded back
C28_SavedPresetLoaded ==
    /\ LoadAfterSave
    /\ ~ret.padded
    /\ arg.name = "a"
    /\ ret.response.bands # <<>>
    /\ ret.response.description = "warm"

\* C29: load_preset for a name that has no stored preset returns the four-band
\* default preset with every gain 1 and is_default true, and leaves the store as
\* it is: list_presets answers the same before and after.
C29_MissingPresetLoadsDefault ==
    (/\ call = "load_preset"
     /\ Get(arg, "name", "default") \notin DOMAIN prev.presets_dir)
        => /\ ret.code = 200
           /\ ret.response.is_default = TRUE
           /\ Len(ret.response.bands) = 4
           /\ \A i \in 1..4 : ret.response.bands[i].gain = 1
           /\ ret.presets_dir = prev.presets_dir
           /\ list_presets(ret.presets_dir).response
                  = list_presets(prev.presets_dir).response

\* the preset flat was deleted while a was stored, and a load of flat got the
\* default
C29_Witness ==
    /\ call = "load_preset"
    /\ "name" \in DOMAIN arg
    /\ arg.name = "flat"
    /\ DOMAIN prev.presets_dir = {"a"}
    /\ ret.response.name = "flat"
    /\ ret.response.is_default = TRUE
    /\ DOMAIN ret.presets_dir = {"a"}

\* a save request the handler must turn down: no JSON data, a blank name, or a
\* band without one of its keys
Rejectable(data) ==
    \/ DOMAIN data = {}
    \/ ("name" \in DOMAIN data /\ data.name \in {"", "  "})
    \/ ("bands" \in DOMAIN data /\
          \E i \in 1..Len(data.bands) :
              \E key \in {"startFreq", "endFreq", "gain"} : key \notin DOMAIN data.bands[i])

====
